---- MODULE Spec2Model ----
(***************************************************************************)
(* The process supervision engine of together-rs: the ProcessManager actor *)
(* (src/src/manager.rs), its mailbox protocol, the handles that talk to    *)
(* it, and the OS children it tracks (src/src/process.rs).                 *)
(***************************************************************************)
EXTENDS Integers, Sequences, FiniteSets, TLC

\* ------------------------------------------------------------- bounds
\* Create requests are capped: index never exceeds MaxIndex.
MaxIndex == 2

\* The callers send at most MaxSends requests in all (a drop's KillAll included).
MaxSends == 3

\* How many reads a stream of a child delivers before it ends.
MaxLines == 2

\* ------------------------------------------------------------- data
\* Opaque shell command lines; two texts, so that one text can be created twice.
Commands == {"a", "b"}

\* Threads holding a handle: "owner" holds the handle returned by start,
\* "sub" holds one obtained through subscribe.
Callers == {"owner", "sub"}

\* ProcessSignal (process.rs:30-34).
ProcessSignal == {"SIGINT", "SIGTERM", "SIGKILL"}

\* ProcessId::new(id, command): identity is the pair (id, command).
ProcessId(id, command) == [id |-> id, command |-> command]

NoId == [id |-> -1, command |-> "none"]

\* ProcessActionResponse: one shape for every variant.
Response(type, id, list) == [type |-> type, id |-> id, list |-> list]

\* Message(ProcessAction, reply sender): `from` names the caller that holds the
\* receiving end of the reply channel.
Message(action, command, id, signal, from) ==
    [action |-> action, command |-> command, id |-> id, signal |-> signal, from |-> from]

CreateActions == {"Create", "CreateAdvanced"}

KillActions == {"Kill", "KillAdvanced"}

VARIABLES
    processes,          \* keys of ProcessManager.processes
    child,              \* the OS child behind every ProcessId spawned so far
    wait_handles,       \* ProcessId -> caller holding the notifier's receiver
    index,              \* next sequence number
    killed,             \* set once KillAll has been processed
    exit_on_error,      \* policy flag, fixed at construction
    quit_on_completion, \* policy flag, fixed at construction
    mailbox,            \* messages sent and not yet received by the actor
    actor,              \* where the control loop is: "recv", "idle_recv", "exited"
    exit_path,          \* which std::process::exit ended the program
    caller,             \* per caller: what its thread is blocked on, if anything
    created,            \* history: the ProcessIds of the Created replies, in order
    reaped,             \* history: ids a reap cycle removed from the table
    last,               \* history: the step taken last, and what it sent to whom
    sends,              \* history: how many requests have been sent
    target,             \* per caller: the id its restart call in progress was given
    replaced            \* history: the Created replies to restarts, with their targets

vars == <<processes, child, wait_handles, index, killed, exit_on_error,
          quit_on_completion, mailbox, actor, exit_path, caller, created, reaped, last,
          sends, target, replaced>>

\* What belongs to the restart calls.
restarts == <<target, replaced>>

\* The standard streams of one created process and the thread that forwards them.
VARIABLES
    stdio,              \* the ProcessStdio mode the process was spawned with
    popen,              \* PopenConfig: the redirection of each stream, and the
                        \* pipe ends forward_stdio has taken
    pipes,              \* per stream: what read_line will still return
    mute,               \* SbProcess.mute, the shared flag
    task,               \* the forwarding thread: where it is, and its locals
    printed             \* the lines print! and eprint! have written

forwarding == <<stdio, popen, pipes, mute, task, printed>>

\* The program around the manager: the thread that runs start, the Ctrl-C handler
\* and the keys read by the input loop.
VARIABLES
    main,               \* the thread in start: where it is, and what is left to run
    ctrl,               \* the Ctrl-C handler: its Mutex<bool>, and how often it ran
    keys                \* history: the keys the input loop has read

frontend == <<main, ctrl, keys>>

\* InputState::default (kb.rs).
InputState == [requested_quit |-> FALSE, awaiting_quit_command |-> FALSE]

\* start has not been called: the handles are driven directly.
NotStarted ==
    /\ main = [phase |-> "off", pc |-> "none", startup |-> 0, selected |-> 0,
               id |-> NoId, ids |-> <<>>, input |-> InputState]
    /\ ctrl = [state |-> FALSE, presses |-> 0]
    /\ keys = <<>>

\* The two streams of a child.
Streams == {"stdout", "stderr"}

\* The forwarding thread before forward_stdio has started it.
NoTask ==
    [pc |-> "none", stdout_read |-> "none", stderr_read |-> "none",
     stdout_line |-> <<>>, stderr_line |-> <<>>,
     stdout_done |-> FALSE, stderr_done |-> FALSE,
     stdout_bytes |-> <<>>, stderr_bytes |-> <<>>]

\* No process has been spawned: no redirection, no flag set, nothing written.
NotSpawned ==
    /\ stdio = "unset"
    /\ popen = [stdout |-> "unset", stderr |-> "unset", taken |-> {}]
    /\ mute = FALSE
    /\ task = NoTask
    /\ printed = [stdout |-> <<>>, stderr |-> <<>>]

NoMessage == Message("None", "none", NoId, "none", "none")

\* The record of one step: its kind, the message it received, the responses it
\* sent (each with the caller it went to), the waiters whose notifier it fired
\* (each with the id waited for), the callers whose notifier it dropped unfired,
\* and what the OS did in it: whether the spawn succeeded, which kills it refused.
Step(kind, msg, sent, notified, displaced, spawned, failed) ==
    [kind |-> kind, msg |-> msg, sent |-> sent, notified |-> notified,
     displaced |-> displaced, spawned |-> spawned, failed |-> failed]

\* A step in which the actor received no message.
Quiet(kind) == Step(kind, NoMessage, <<>>, {}, {}, FALSE, {})

\* ProcessManager::new, then the with_* builders, then start.
ManagerInit ==
    /\ processes = {}
    /\ child = [p \in {} |-> 0]
    /\ wait_handles = [p \in {} |-> 0]
    /\ index = 0
    /\ killed = FALSE
    /\ exit_on_error \in BOOLEAN
    /\ quit_on_completion \in BOOLEAN
    /\ mailbox = <<>>
    /\ actor = "recv"
    /\ exit_path = "none"
    /\ caller = [c \in Callers |-> "idle"]
    /\ created = <<>>
    /\ reaped = {}
    /\ last = Quiet("init")
    /\ sends = 0
    /\ target = [c \in Callers |-> NoId]
    /\ replaced = {}

\* The manager after start, no process spawned and no stream to forward.
Init ==
    /\ ManagerInit
    /\ NotSpawned
    /\ NotStarted
    /\ pipes = [s \in Streams |-> [items |-> <<>>, end |-> "eof"]]

\* ------------------------------------------------------------- process.rs
\* SbProcess::spawn succeeded: the OS child runs and no signal has reached it.
NewChild == [status |-> "running", signal |-> "none"]

\* Faulty variant of the signal choice: Option::None is mapped to SIGINT.
KillSignal_sigint(signal) == IF signal = "none" THEN "SIGINT" ELSE signal

\* The signal SbProcess::kill hands to libc::kill; "none" is Option::None.
KillSignal(signal) == IF signal = "none" THEN "SIGTERM" ELSE signal

\* Faulty variant of the kill: the child is not polled first, and the signal goes
\* to the process group of a child that has already exited.
SbProcess_kill_unpolled(c, signal, fails) ==
    IF fails THEN [ok |-> FALSE, child |-> c]
    ELSE [ok |-> TRUE, child |-> [c EXCEPT !.signal = KillSignal(signal)]]

\* SbProcess::kill: poll first, a finished child has no pid and the call is Ok
\* without a signal; otherwise libc::kill(-pid, signal), which the OS may refuse
\* (`fails`), and then the result is Err and nothing was delivered. `signal` of the
\* child is the signal delivered to it last.
SbProcess_kill(c, signal, fails) ==
    IF c.status # "running" THEN [ok |-> TRUE, child |-> c]
    ELSE IF fails THEN [ok |-> FALSE, child |-> c]
    ELSE [ok |-> TRUE, child |-> [c EXCEPT !.signal = KillSignal(signal)]]

\* Faulty variant of the poll: a child ended by a signal is reported as a success.
try_wait_signal_success(c) ==
    CASE c.status = "running" -> [tag |-> "None", code |-> 0]
      [] c.status \in {"exit0", "signaled"} -> [tag |-> "Some", code |-> 0]
      [] c.status = "exit7" -> [tag |-> "Some", code |-> 7]
      [] OTHER -> [tag |-> "Err", code |-> 0]

\* SbProcess::try_wait: Ok(None) while running, Ok(Some(code)) once exited (1 when
\* a signal ended the child), Err(ProcessFailedToExit) for Other / Undetermined.
try_wait(c) ==
    CASE c.status = "running" -> [tag |-> "None", code |-> 0]
      [] c.status = "exit0" -> [tag |-> "Some", code |-> 0]
      [] c.status = "exit7" -> [tag |-> "Some", code |-> 7]
      [] c.status = "signaled" -> [tag |-> "Some", code |-> 1]
      [] OTHER -> [tag |-> "Err", code |-> 0]

\* The statuses the OS can report for a child that is no longer running.
FinalStatuses == {"exit0", "exit7", "signaled", "other"}

\* ------------------------------------------------------------- manager.rs
\* Faulty variant of the increment: the index is handed out and never advanced.
NextIndex_stuck(i) == i

\* self.index += 1
NextIndex(i) == i + 1

\* Faulty variant of the insert: the table gets an entry whether or not the spawn
\* succeeded.
start_new_process_always(command, id, spawned) ==
    /\ processes' = processes \cup {ProcessId(id, command)}
    /\ child' = (ProcessId(id, command) :> NewChild) @@ child

\* Faulty variant of the insert: the new process replaces the table instead of
\* joining it.
start_new_process_replacing(command, id, spawned) ==
    IF spawned
    THEN /\ processes' = {ProcessId(id, command)}
         /\ child' = (ProcessId(id, command) :> NewChild) @@ child
    ELSE UNCHANGED <<processes, child>>

\* Faulty variant of the insert: once killed is set nothing is inserted any more.
start_new_process_unless_killed(command, id, spawned) ==
    IF spawned /\ ~killed
    THEN /\ processes' = processes \cup {ProcessId(id, command)}
         /\ child' = (ProcessId(id, command) :> NewChild) @@ child
    ELSE UNCHANGED <<processes, child>>

\* start_new_process: on a successful spawn the new ProcessId is inserted and
\* returned in Created; on a failed spawn the table is left alone.
start_new_process(command, id, spawned) ==
    IF spawned
    THEN /\ processes' = processes \cup {ProcessId(id, command)}
         /\ child' = (ProcessId(id, command) :> NewChild) @@ child
    ELSE UNCHANGED <<processes, child>>

\* start_new_process, the response it returns.
start_response(command, id, spawned) ==
    IF spawned THEN Response("Created", ProcessId(id, command), {})
    ELSE Response("SpawnChildFailed", NoId, {})

\* Faulty variant of the Wait arm: every id is answered Waited.
wait_response_any(id) == Response("Waited", id, {})

\* process_message, Wait: a notifier is registered only for an id of the table.
wait_response(id) ==
    IF id \in processes THEN Response("Waited", id, {})
    ELSE Response("NoSuchProcess", NoId, {})

\* Faulty variant of the Kill arm: an id that is not in the table is answered
\* Killed.
kill_response_lenient(id, signal, fails) ==
    IF id \notin processes THEN Response("Killed", NoId, {})
    ELSE IF SbProcess_kill(child[id], signal, fails).ok THEN Response("Killed", NoId, {})
    ELSE Response("KillChildFailed", NoId, {})

\* process_message, Kill and KillAdvanced: kill the child if the id is in the table.
kill_response(id, signal, fails) ==
    IF id \notin processes THEN Response("NoSuchProcess", NoId, {})
    ELSE IF SbProcess_kill(child[id], signal, fails).ok THEN Response("Killed", NoId, {})
    ELSE Response("KillChildFailed", NoId, {})

\* Faulty variant of the KillAll arm: the errors are not looked at.
kill_all_response_ok(failing) == Response("KilledAll", NoId, {})

\* process_message, KillAll: KilledAll when no kill returned an error.
kill_all_response(failing) ==
    IF \A p \in processes : SbProcess_kill(child[p], "none", p \in failing).ok
    THEN Response("KilledAll", NoId, {})
    ELSE Response("Unknown", NoId, {})

\* process_message, List: the keys of the table.
list_response == Response("List", NoId, processes)

\* Faulty variant of process_message: a Create clears the killed flag.
process_message_resetting(m, spawned, failing) ==
    CASE m.action \in CreateActions ->
            /\ index' = NextIndex(index)
            /\ start_new_process(m.command, index, spawned)
            /\ killed' = FALSE
            /\ UNCHANGED wait_handles
      [] m.action = "Wait" ->
            /\ wait_handles' = IF m.id \in processes
                               THEN (m.id :> m.from) @@ wait_handles
                               ELSE wait_handles
            /\ UNCHANGED <<processes, child, index, killed>>
      [] m.action \in KillActions ->
            /\ child' = IF m.id \in processes
                        THEN [child EXCEPT
                                ![m.id] = SbProcess_kill(@, m.signal, m.id \in failing).child]
                        ELSE child
            /\ UNCHANGED <<processes, wait_handles, index, killed>>
      [] m.action = "KillAll" ->
            /\ killed' = TRUE
            /\ child' = [p \in DOMAIN child |->
                            IF p \in processes
                            THEN SbProcess_kill(child[p], "none", p \in failing).child
                            ELSE child[p]]
            /\ UNCHANGED <<processes, wait_handles, index>>
      [] m.action = "List" ->
            UNCHANGED <<processes, child, wait_handles, index, killed>>

\* process_message, the state it leaves behind. `spawned` is whether Process::spawn
\* succeeds, `failing` the processes whose kill syscall the OS refuses.
process_message(m, spawned, failing) ==
    CASE m.action \in CreateActions ->
            /\ index' = NextIndex(index)
            /\ start_new_process(m.command, index, spawned)
            /\ UNCHANGED <<wait_handles, killed>>
      [] m.action = "Wait" ->
            /\ wait_handles' = IF m.id \in processes
                               THEN (m.id :> m.from) @@ wait_handles
                               ELSE wait_handles
            /\ UNCHANGED <<processes, child, index, killed>>
      [] m.action \in KillActions ->
            /\ child' = IF m.id \in processes
                        THEN [child EXCEPT
                                ![m.id] = SbProcess_kill(@, m.signal, m.id \in failing).child]
                        ELSE child
            /\ UNCHANGED <<processes, wait_handles, index, killed>>
      [] m.action = "KillAll" ->
            /\ killed' = TRUE
            /\ child' = [p \in DOMAIN child |->
                            IF p \in processes
                            THEN SbProcess_kill(child[p], "none", p \in failing).child
                            ELSE child[p]]
            /\ UNCHANGED <<processes, wait_handles, index>>
      [] m.action = "List" ->
            UNCHANGED <<processes, child, wait_handles, index, killed>>

\* process_message, the response it returns.
process_response(m, spawned, failing) ==
    CASE m.action \in CreateActions -> start_response(m.command, index, spawned)
      [] m.action = "Wait" -> wait_response(m.id)
      [] m.action \in KillActions -> kill_response(m.id, m.signal, m.id \in failing)
      [] m.action = "KillAll" -> kill_all_response(failing)
      [] m.action = "List" -> list_response

\* The outcomes of Process::spawn a request can meet.
SpawnOutcomes(m) == IF m.action \in CreateActions THEN BOOLEAN ELSE {FALSE}

\* The processes whose kill syscall may fail while a request is processed: only a
\* running child in the table is signalled at all.
KillFailures(m) ==
    CASE m.action \in KillActions ->
            IF m.id \in processes /\ child[m.id].status = "running"
            THEN {{}, {m.id}} ELSE {{}}
      [] m.action = "KillAll" ->
            SUBSET {p \in processes : child[p].status = "running"}
      [] OTHER -> {{}}

\* Faulty variant of the replacement: the waiter registered before is not released.
Displaced_none(m) == {}

\* The caller whose notifier a Wait replaces: HashMap::insert drops the sender
\* registered before, and the receiver blocked on it gets RecvError.
Displaced(m) ==
    IF m.action = "Wait" /\ m.id \in processes /\ m.id \in DOMAIN wait_handles
    THEN {wait_handles[m.id]} ELSE {}

\* Faulty variant of the drop: the owner never joins the actor thread.
AfterResponse_never_joins(state, m, response) ==
    CASE state = "drop_sent" -> "dropped"
      [] state # "drop_sent" /\ m.action = "Wait" /\ response.type = "Waited" -> "waiting"
      [] OTHER -> "idle"

\* What the thread that sent a request does with the response: a dropping owner
\* joins the actor thread on KilledAll and is done otherwise; restart goes on to
\* spawn when its kill was answered Killed; ProcessManagerHandle::wait blocks on
\* the notifier it was handed; every other wrapper returns.
AfterResponse(state, m, response) ==
    CASE state = "drop_sent" ->
            IF response.type = "KilledAll" THEN "joining" ELSE "dropped"
      [] state = "restart_sent" ->
            IF response.type = "Killed" THEN "restart_spawn" ELSE "idle"
      [] state \notin {"drop_sent", "restart_sent"}
            /\ m.action = "Wait" /\ response.type = "Waited" -> "waiting"
      [] OTHER -> "idle"

\* ProcessManagerHandle::wait, what it does with a response: on Waited it blocks
\* on the notifier, anything else is an error at once.
handle_wait(response) ==
    IF response.type = "Waited" THEN "done.recv()" ELSE "Err(UnexpectedResponse)"

\* ProcessManagerHandle::kill, the value it returns for a response.
handle_kill(response) ==
    CASE response.type = "Killed" -> "Ok(Some)"
      [] response.type = "NoSuchProcess" -> "Ok(None)"
      [] OTHER -> "Err(UnexpectedResponse)"

\* Faulty variant of the reply: the response is sent twice.
Responses_twice(m, response) ==
    <<[to |-> m.from, response |-> response], [to |-> m.from, response |-> response]>>

\* message.1.send(response): the responses one processed message puts on its
\* reply channel.
Responses(m, response) == <<[to |-> m.from, response |-> response]>>

\* The callers after a step: one that was sent a response goes on as its wrapper
\* says, one whose notifier fired or was dropped returns from wait.
Released(cs, m, sent, released) ==
    [c \in Callers |->
        IF \E i \in 1..Len(sent) : sent[i].to = c
        THEN AfterResponse(cs[c], m, sent[Len(sent)].response)
        ELSE IF c \in released THEN "idle" ELSE cs[c]]

\* The ProcessIds the Created responses of a step carry.
CreatedIds(sent) ==
    IF Len(sent) > 0 /\ sent[1].response.type = "Created"
    THEN <<sent[1].response.id>> ELSE <<>>

\* ProcessManagerHandle::restart: the ProcessId its spawn returns, with the id the
\* restart was called for.
Replacements(m, sent) ==
    IF m.action \in CreateActions /\ target[m.from] # NoId
    THEN {[target |-> target[m.from], id |-> sent[i].response.id] :
            i \in {j \in 1..Len(sent) : sent[j].response.type = "Created"}}
    ELSE {}

\* start, where the main thread goes on: the startup commands first, then the
\* selected ones, then the input loop.
NextPhase(startup, selected) ==
    IF startup > 0 THEN "startup" ELSE IF selected > 0 THEN "together" ELSE "input"

\* start returns through a `?`: the manager is dropped on the way out.
Failed(mn) == [mn EXCEPT !.phase = "failed", !.pc = "none"]

\* Faulty variant of the startup loop: the next command is spawned without a wait
\* for the one just created.
StartupCreated_no_wait(mn, id) ==
    [mn EXCEPT !.pc = "spawn", !.id = id, !.ids = Append(@, id),
               !.startup = mn.startup - 1,
               !.phase = NextPhase(mn.startup - 1, mn.selected)]

\* execute_startup_commands, spawn_advanced returned id: sender.wait(id) is next.
StartupCreated(mn, id) ==
    [mn EXCEPT !.pc = "wait", !.id = id, !.ids = Append(@, id)]

\* The main thread when a response reaches it, or when its notifier is dropped:
\* execute_startup_commands leaves through `?` on anything but Created and
\* Waited, execute_together_commands ignores what the response is, and the
\* input loop goes on to the next key.
MainAfterResponse(mn, m, sent, displaced) ==
    IF mn.phase = "off" THEN mn
    ELSE IF "owner" \in displaced /\ mn.pc = "blocked" THEN Failed(mn)
    ELSE IF m.from # "owner" \/ sent = <<>> THEN mn
    ELSE LET response == sent[Len(sent)].response IN
         CASE mn.phase = "startup" /\ m.action = "CreateAdvanced" ->
                IF response.type = "Created"
                THEN StartupCreated(mn, response.id) ELSE Failed(mn)
           [] mn.phase = "startup" /\ m.action = "Wait" ->
                IF handle_wait(response) = "done.recv()"
                THEN [mn EXCEPT !.pc = "blocked"] ELSE Failed(mn)
           [] mn.phase = "together" /\ m.action = "Create" ->
                [mn EXCEPT !.selected = mn.selected - 1,
                           !.phase = NextPhase(0, mn.selected - 1)]
           [] OTHER -> mn

\* execute_startup_commands, sender.wait(id) returned Ok: the next startup
\* command, or the rest of start.
MainAfterWait(mn, notified) ==
    IF mn.phase = "startup" /\ mn.pc = "blocked" /\ \E n \in notified : n.to = "owner"
    THEN [mn EXCEPT !.pc = IF mn.startup > 1 THEN "spawn" ELSE "none",
                    !.startup = mn.startup - 1,
                    !.phase = NextPhase(mn.startup - 1, mn.selected)]
    ELSE mn

\* One received message: process_message, then the response goes to its sender.
ServeMessage(m, kind) ==
    \E spawned \in SpawnOutcomes(m), failing \in KillFailures(m) :
        LET sent == Responses(m, process_response(m, spawned, failing)) IN
        /\ process_message(m, spawned, failing)
        /\ caller' = Released(caller, m, sent, Displaced(m))
        /\ mailbox' = Tail(mailbox)
        /\ actor' = "recv"
        /\ created' = created \o CreatedIds(sent)
        /\ last' = Step(kind, m, sent, {}, Displaced(m), spawned, failing)
        /\ target' = [target EXCEPT
                        ![m.from] = IF caller'[m.from] = "restart_spawn" THEN @ ELSE NoId]
        /\ replaced' = replaced \cup Replacements(m, sent)
        /\ main' = MainAfterResponse(main, m, sent, Displaced(m))
        /\ UNCHANGED <<exit_on_error, quit_on_completion, exit_path, reaped, sends>>
        /\ UNCHANGED forwarding
        /\ UNCHANGED <<ctrl, keys>>

\* Faulty variant of the receive: the newest message is taken.
Received_newest(q) == q[Len(q)]

\* self.receiver.recv_timeout: the channel hands over the oldest message.
Received(q) == Head(q)

\* rx_message_loop, first recv_timeout returns Ok(message).
Recv ==
    /\ actor = "recv"
    /\ mailbox # <<>>
    /\ ServeMessage(Received(mailbox), "recv")

\* Faulty variant of the first loop: only a zero exit status is collected.
Remove_zero_only ==
    {p \in processes : try_wait(child[p]).tag = "Some" /\ try_wait(child[p]).code = 0}

\* cleanup_dead_processes, first loop: the ids whose try_wait is Ok(Some(status)).
Remove == {p \in processes : try_wait(child[p]).tag = "Some"}

\* Faulty variant of kill_all: the cascade is never triggered.
KillAllTriggered_never == FALSE

\* Faulty variant of kill_all: exit_on_error is not looked at.
KillAllTriggered_unconditional == \E p \in Remove : try_wait(child[p]).code # 0

\* cleanup_dead_processes, kill_all: a removed process exited non-zero and
\* exit_on_error is set.
KillAllTriggered ==
    exit_on_error /\ \E p \in Remove : try_wait(child[p]).code # 0

\* The processes whose kill syscall may fail during the cascade.
CascadeFailures ==
    IF KillAllTriggered
    THEN SUBSET {p \in processes \ Remove : child[p].status = "running"}
    ELSE {{}}

\* Faulty variant of the second loop: every registered notifier is fired.
Notified_everyone == {[to |-> wait_handles[p], id |-> p] : p \in DOMAIN wait_handles}

\* cleanup_dead_processes, second loop: the notifiers fired, with their receivers.
Notified == {[to |-> wait_handles[p], id |-> p] : p \in Remove \cap DOMAIN wait_handles}

\* cleanup_dead_processes: remove the exited processes and fire their notifiers;
\* under kill_all, drain the rest of the table, killing each drained child.
cleanup_dead_processes(failing) ==
    LET rest == processes \ Remove IN
    /\ wait_handles' = [p \in DOMAIN wait_handles \ Remove |-> wait_handles[p]]
    /\ caller' = Released(caller, NoMessage, <<>>, {n.to : n \in Notified})
    /\ processes' = IF KillAllTriggered THEN {} ELSE rest
    /\ child' = IF KillAllTriggered
                THEN [p \in DOMAIN child |->
                        IF p \in rest
                        THEN SbProcess_kill(child[p], "none", p \in failing).child
                        ELSE child[p]]
                ELSE child
    /\ reaped' = reaped \cup (processes \ processes')
    /\ last' = Step("reap", NoMessage, <<>>, Notified, {}, FALSE, failing)
    /\ main' = MainAfterWait(main, Notified)

\* std::process::exit(0), reached along `path`.
Exit(path) == actor' = "exited" /\ exit_path' = path

\* Faulty variant of the exit test: the table is not looked at.
QuitsAfterReap_eager(table) == quit_on_completion \/ killed

\* Faulty variant of the exit test: only a KillAll makes an empty table an exit.
QuitsAfterReap_killed_only(table) == table = {} /\ killed

\* Faulty variant of the exit test: the policy is not looked at.
QuitsAfterReap_regardless(table) == table = {}

\* rx_message_loop, after the reap: exit when the table is empty and the policy
\* says so.
QuitsAfterReap(table) == table = {} /\ (quit_on_completion \/ killed)

\* rx_message_loop, after the reap: the second recv_timeout is entered when the
\* table is empty and the program stays up.
IdlesAfterReap(table) == table = {} /\ ~(quit_on_completion \/ killed)

\* rx_message_loop, first recv_timeout returns Timeout.
RecvTimeout ==
    /\ actor = "recv"
    /\ mailbox = <<>>
    /\ UNCHANGED <<index, killed, exit_on_error, quit_on_completion, mailbox, created, sends>>
    /\ UNCHANGED restarts
    /\ UNCHANGED forwarding
    /\ UNCHANGED <<ctrl, keys>>
    /\ IF killed
       THEN /\ Exit("loop_end")
            /\ last' = Quiet("timeout")
            /\ UNCHANGED <<processes, child, wait_handles, caller, reaped, main>>
       ELSE IF processes = {}
       THEN /\ last' = Quiet("timeout")
            /\ UNCHANGED <<processes, child, wait_handles, caller, reaped, actor, exit_path,
                           main>>
       ELSE \E failing \in CascadeFailures :
            /\ cleanup_dead_processes(failing)
            /\ IF QuitsAfterReap(processes') THEN Exit("completion")
               ELSE IF IdlesAfterReap(processes')
               THEN actor' = "idle_recv" /\ UNCHANGED exit_path
               ELSE UNCHANGED <<actor, exit_path>>

\* rx_message_loop, second recv_timeout returns Ok: a KillAll ends the program
\* without a response, any other message is processed and answered.
IdleRecv ==
    /\ actor = "idle_recv"
    /\ mailbox # <<>>
    /\ IF Received(mailbox).action = "KillAll"
       THEN /\ Exit("idle_killall")
            /\ mailbox' = Tail(mailbox)
            /\ last' = Step("idle_recv", Received(mailbox), <<>>, {}, {}, FALSE, {})
            /\ UNCHANGED <<processes, child, wait_handles, index, killed, exit_on_error,
                           quit_on_completion, caller, created, reaped, sends>>
            /\ UNCHANGED restarts
            /\ UNCHANGED forwarding
            /\ UNCHANGED frontend
       ELSE ServeMessage(Received(mailbox), "idle_recv")

\* rx_message_loop, second recv_timeout returns Timeout.
IdleTimeout ==
    /\ actor = "idle_recv"
    /\ mailbox = <<>>
    /\ actor' = "recv"
    /\ last' = Quiet("idle_timeout")
    /\ UNCHANGED <<processes, child, wait_handles, index, killed, exit_on_error,
                   quit_on_completion, mailbox, exit_path, caller, created, reaped, sends>>
    /\ UNCHANGED restarts
    /\ UNCHANGED forwarding
    /\ UNCHANGED frontend

\* ------------------------------------------------------------- the callers
\* Create requests sent and not yet received.
PendingCreates ==
    Cardinality({i \in 1..Len(mailbox) : mailbox[i].action \in CreateActions})

\* The requests caller c can send: any ProcessAction, about any ProcessId that a
\* Created response has handed out.
Requests(c) ==
    {Message(a, cmd, NoId, "none", c) : a \in CreateActions, cmd \in Commands}
    \cup {Message(a, "none", p, "none", c) : a \in {"Wait", "Kill"}, p \in DOMAIN child}
    \cup {Message("KillAdvanced", "none", p, s, c) : p \in DOMAIN child, s \in ProcessSignal}
    \cup {Message(a, "none", NoId, "none", c) : a \in {"KillAll", "List"}}

\* ProcessManagerHandle::send: put the message in the mailbox and block on the
\* reply channel.
Send(c) ==
    /\ actor # "exited"
    /\ caller[c] = "idle"
    /\ sends < MaxSends
    /\ \E m \in Requests(c) :
        /\ m.action \in CreateActions => index + PendingCreates < MaxIndex
        /\ mailbox' = Append(mailbox, m)
    /\ caller' = [caller EXCEPT ![c] = "sent"]
    /\ last' = Quiet("env")
    /\ sends' = sends + 1
    /\ UNCHANGED restarts
    /\ UNCHANGED <<processes, child, wait_handles, index, killed, exit_on_error,
                   quit_on_completion, actor, exit_path, created, reaped>>
    /\ UNCHANGED forwarding
    /\ UNCHANGED frontend

\* Drop for ProcessManagerHandle, on the handle that owns the thread: send KillAll
\* and block on the reply channel.
OwnerDrop ==
    /\ actor # "exited"
    /\ caller["owner"] = "idle"
    /\ sends < MaxSends
    /\ mailbox' = Append(mailbox, Message("KillAll", "none", NoId, "none", "owner"))
    /\ caller' = [caller EXCEPT !["owner"] = "drop_sent"]
    /\ last' = Quiet("env")
    /\ sends' = sends + 1
    /\ UNCHANGED restarts
    /\ UNCHANGED <<processes, child, wait_handles, index, killed, exit_on_error,
                   quit_on_completion, actor, exit_path, created, reaped>>
    /\ UNCHANGED forwarding
    /\ UNCHANGED frontend

\* The OS: a running child ends with status s; a signal can end it only after one
\* was delivered.
ChildExit ==
    \E p \in DOMAIN child, s \in FinalStatuses :
        /\ actor # "exited"
        /\ child[p].status = "running"
        /\ s = "signaled" => child[p].signal # "none"
        /\ child' = [child EXCEPT ![p].status = s]
        /\ last' = Quiet("env")
        /\ UNCHANGED <<processes, wait_handles, index, killed, exit_on_error,
                       quit_on_completion, mailbox, actor, exit_path, caller, created,
                       reaped, sends>>
        /\ UNCHANGED restarts
        /\ UNCHANGED forwarding
        /\ UNCHANGED frontend

Next ==
    \/ Recv
    \/ RecvTimeout
    \/ IdleRecv
    \/ IdleTimeout
    \/ \E c \in Callers : Send(c)
    \/ OwnerDrop
    \/ ChildExit

Spec == Init /\ [][Next]_<<vars, forwarding, frontend>>

\* ------------------------------------------------------------- the handle API
\* The command lines given to the wrappers: neither restart nor drop looks at the
\* text, so one is enough.
HandleCommands == {"a"}

\* ProcessManagerHandle::spawn: send Create(command) and block on the reply.
Spawn(c) ==
    /\ actor # "exited"
    /\ caller[c] = "idle"
    /\ sends < MaxSends
    /\ \E cmd \in HandleCommands :
        mailbox' = Append(mailbox, Message("Create", cmd, NoId, "none", c))
    /\ caller' = [caller EXCEPT ![c] = "sent"]
    /\ last' = Quiet("env")
    /\ sends' = sends + 1
    /\ UNCHANGED <<processes, child, wait_handles, index, killed, exit_on_error,
                   quit_on_completion, actor, exit_path, created, reaped, restarts>>
    /\ UNCHANGED forwarding
    /\ UNCHANGED frontend

\* ProcessManagerHandle::restart, its first half: self.kill(id) sends Kill(id) and
\* blocks on the reply.
Restart(c) ==
    /\ actor # "exited"
    /\ caller[c] = "idle"
    /\ sends < MaxSends
    /\ \E id \in DOMAIN child :
        /\ mailbox' = Append(mailbox, Message("Kill", "none", id, "none", c))
        /\ target' = [target EXCEPT ![c] = id]
    /\ caller' = [caller EXCEPT ![c] = "restart_sent"]
    /\ last' = Quiet("env")
    /\ sends' = sends + 1
    /\ UNCHANGED <<processes, child, wait_handles, index, killed, exit_on_error,
                   quit_on_completion, actor, exit_path, created, reaped, replaced>>
    /\ UNCHANGED forwarding
    /\ UNCHANGED frontend

\* ProcessManagerHandle::restart, its second half: the kill returned Some(()), so
\* self.spawn(command) sends Create(command) and blocks on the reply. The command
\* is the one of the process restarted, as handle_key_press passes it.
RestartSpawn(c) ==
    /\ actor # "exited"
    /\ caller[c] = "restart_spawn"
    /\ mailbox' = Append(mailbox, Message("Create", target[c].command, NoId, "none", c))
    /\ caller' = [caller EXCEPT ![c] = "sent"]
    /\ last' = Quiet("env")
    /\ UNCHANGED <<processes, child, wait_handles, index, killed, exit_on_error,
                   quit_on_completion, actor, exit_path, created, reaped, sends,
                   restarts>>
    /\ UNCHANGED forwarding
    /\ UNCHANGED frontend

\* Faulty variant of the drop: a subscribed handle shuts the manager down as the
\* owning one does.
SubDrop_kills ==
    /\ actor # "exited"
    /\ caller["sub"] = "idle"
    /\ mailbox' = Append(mailbox, Message("KillAll", "none", NoId, "none", "sub"))
    /\ caller' = [caller EXCEPT !["sub"] = "drop_sent"]
    /\ last' = Quiet("env")
    /\ UNCHANGED <<processes, child, wait_handles, index, killed, exit_on_error,
                   quit_on_completion, actor, exit_path, created, reaped, sends,
                   restarts>>
    /\ UNCHANGED forwarding
    /\ UNCHANGED frontend

\* Drop for ProcessManagerHandle, on a handle obtained through subscribe: thread
\* is None and drop returns at once.
SubDrop ==
    /\ actor # "exited"
    /\ caller["sub"] = "idle"
    /\ caller' = [caller EXCEPT !["sub"] = "dropped"]
    /\ last' = Quiet("env")
    /\ UNCHANGED <<processes, child, wait_handles, index, killed, exit_on_error,
                   quit_on_completion, mailbox, actor, exit_path, created, reaped,
                   sends, restarts>>
    /\ UNCHANGED forwarding
    /\ UNCHANGED frontend

\* The OS, as far as the table shows it: a running child of the table ends.
TableExit ==
    /\ ChildExit
    /\ \A p \in DOMAIN child \ processes : child'[p] = child[p]

\* The manager driven through the wrappers of its handles only.
HandleNext ==
    \/ Recv
    \/ RecvTimeout
    \/ IdleRecv
    \/ IdleTimeout
    \/ \E c \in Callers : Spawn(c)
    \/ \E c \in Callers : Restart(c)
    \/ \E c \in Callers : RestartSpawn(c)
    \/ OwnerDrop
    \/ SubDrop
    \/ TableExit

HandleSpec == Init /\ [][HandleNext]_<<vars, forwarding, frontend>>

\* ------------------------------------------------------------- stdio forwarding
\* enum ProcessStdio.
ProcessStdio == {"Inherit", "Raw", "StderrOnly"}

\* From<bool> for ProcessStdio, applied to the manager's raw_stdio flag.
StdioFromRaw(raw) == IF raw THEN "Raw" ELSE "Inherit"

\* The mode a Create runs with: CreateAdvanced passes
\* options.stdio.unwrap_or(self.raw_stdio.into()), Create the flag alone.
CreateStdio(option, raw) == IF option = "unset" THEN StdioFromRaw(raw) ELSE option

\* SbProcess::spawn, config.stdout.
stdout_redirection(mode) == IF mode = "Raw" THEN "None" ELSE "Pipe"

\* Faulty variant of config.stderr: only Raw leaves stderr to the parent.
stderr_redirection_piped(mode) == IF mode = "Raw" THEN "None" ELSE "Pipe"

\* SbProcess::spawn, config.stderr.
stderr_redirection(mode) == IF mode \in {"Raw", "StderrOnly"} THEN "None" ELSE "Pipe"

\* start_new_process: `if let ProcessStdio::Inherit = stdio` guards forward_stdio.
Forwards(mode) == mode = "Inherit"

\* What a stream can hand to read_line next: a line, or bytes read_line fails on.
Reads == {"line", "error"}

\* How a stream ends: end-of-stream, or a failure that every later read repeats.
Ends == {"eof", "error"}

\* The sequences over S of length at most n.
SeqUpTo(S, n) == UNION {[1..k -> S] : k \in 0..n}

\* BufRead::read_line on a stream: Ok(n) with n > 0 for a line, Ok(0) at
\* end-of-stream, Err otherwise.
read_line(pipe) ==
    IF pipe.items # <<>>
    THEN (IF Head(pipe.items) = "line" THEN "Ok(n)" ELSE "Err")
    ELSE (IF pipe.end = "eof" THEN "Ok(0)" ELSE "Err")

\* read_line appends the line it read to its buffer; on Ok(0) and on Err the
\* buffer is as before.
Appended(line, pipe) == IF read_line(pipe) = "Ok(n)" THEN Append(line, "line") ELSE line

\* The stream after one read_line: what was read is consumed.
Consumed(pipe) == IF pipe.items # <<>> THEN [pipe EXCEPT !.items = Tail(@)] ELSE pipe

\* forward_stdio_blocking, the match on (stdout_read, stderr_read), its arms in
\* their order. Both flags are false before it, in every iteration.
Done(stdout_read, stderr_read) ==
    IF stdout_read = "Ok(0)" /\ stderr_read = "Ok(0)"
    THEN [stdout |-> TRUE, stderr |-> TRUE]
    ELSE IF stdout_read = "Ok(0)" THEN [stdout |-> TRUE, stderr |-> FALSE]
    ELSE IF stderr_read = "Ok(0)" THEN [stdout |-> FALSE, stderr |-> TRUE]
    ELSE IF stdout_read = "Ok(n)" /\ stderr_read = "Ok(n)"
    THEN [stdout |-> FALSE, stderr |-> FALSE]
    ELSE IF stdout_read = "Err" THEN [stdout |-> TRUE, stderr |-> FALSE]
    ELSE [stdout |-> FALSE, stderr |-> TRUE]

\* start_new_process: SbProcess::spawn sets the two redirections and the flag
\* (false); forward_stdio, called for Inherit only, takes both pipe ends and
\* starts the thread.
StartStdio ==
    /\ stdio = "unset"
    /\ \E option \in {"unset"} \cup ProcessStdio, raw \in BOOLEAN :
        LET mode == CreateStdio(option, raw) IN
        /\ stdio' = mode
        /\ popen' = [stdout |-> stdout_redirection(mode),
                     stderr |-> stderr_redirection(mode),
                     taken |-> IF Forwards(mode) THEN Streams ELSE {}]
        /\ task' = IF Forwards(mode) THEN [NoTask EXCEPT !.pc = "read_stdout"] ELSE NoTask
    /\ mute' = FALSE
    /\ UNCHANGED <<pipes, printed>>
    /\ UNCHANGED vars
    /\ UNCHANGED frontend

\* forward_stdio_blocking, top of the loop: the flags and the byte buffers start
\* afresh, then stdout.read_line.
ReadStdout ==
    /\ task.pc = "read_stdout"
    /\ task' = [task EXCEPT !.pc = "read_stderr",
                            !.stdout_done = FALSE, !.stderr_done = FALSE,
                            !.stdout_bytes = <<>>, !.stderr_bytes = <<>>,
                            !.stdout_read = read_line(pipes.stdout),
                            !.stdout_line = Appended(@, pipes.stdout)]
    /\ pipes' = [pipes EXCEPT !.stdout = Consumed(@)]
    /\ UNCHANGED <<stdio, popen, mute, printed>>
    /\ UNCHANGED vars
    /\ UNCHANGED frontend

\* forward_stdio_blocking: stderr.read_line, the match, and the move of each line
\* buffer into its byte buffer unless the stream's flag is set.
ReadStderr ==
    /\ task.pc = "read_stderr"
    /\ LET stderr_read == read_line(pipes.stderr)
           stderr_line == Appended(task.stderr_line, pipes.stderr)
           done == Done(task.stdout_read, stderr_read)
       IN task' = [task EXCEPT
                    !.pc = "print",
                    !.stderr_read = stderr_read,
                    !.stdout_done = done.stdout,
                    !.stderr_done = done.stderr,
                    !.stdout_bytes = IF done.stdout THEN <<>> ELSE task.stdout_line,
                    !.stdout_line = IF done.stdout THEN @ ELSE <<>>,
                    !.stderr_bytes = IF done.stderr THEN <<>> ELSE stderr_line,
                    !.stderr_line = IF done.stderr THEN stderr_line ELSE <<>>]
    /\ pipes' = [pipes EXCEPT !.stderr = Consumed(@)]
    /\ UNCHANGED <<stdio, popen, mute, printed>>
    /\ UNCHANGED vars
    /\ UNCHANGED frontend

\* forward_stdio_blocking: with stdout bytes to print and the flag set, the thread
\* logs and sleeps 100 ms.
MuteSleep ==
    /\ task.pc = "print"
    /\ task.stdout_bytes # <<>>
    /\ mute
    /\ task' = [task EXCEPT !.pc = "sleep"]
    /\ UNCHANGED <<stdio, popen, pipes, mute, printed>>
    /\ UNCHANGED vars
    /\ UNCHANGED frontend

\* forward_stdio_blocking: the sleep is over, the flag is read again.
MuteWake ==
    /\ task.pc = "sleep"
    /\ task' = [task EXCEPT !.pc = "print"]
    /\ UNCHANGED <<stdio, popen, pipes, mute, printed>>
    /\ UNCHANGED vars
    /\ UNCHANGED frontend

\* forward_stdio_blocking: without stdout bytes the print is skipped; with them,
\* the while loop ends when the flag is found unset.
MutePass ==
    /\ task.pc = "print"
    /\ task.stdout_bytes # <<>> => ~mute
    /\ task' = [task EXCEPT !.pc = IF task.stdout_bytes = <<>> THEN "eprint" ELSE "write"]
    /\ UNCHANGED <<stdio, popen, pipes, mute, printed>>
    /\ UNCHANGED vars
    /\ UNCHANGED frontend

\* forward_stdio_blocking: print! of the stdout bytes.
PrintStdout ==
    /\ task.pc = "write"
    /\ printed' = [printed EXCEPT !.stdout = @ \o task.stdout_bytes]
    /\ task' = [task EXCEPT !.pc = "eprint"]
    /\ UNCHANGED <<stdio, popen, pipes, mute>>
    /\ UNCHANGED vars
    /\ UNCHANGED frontend

\* forward_stdio_blocking: eprint! of the stderr bytes, if there are any, then the
\* test that ends the loop.
EprintStderr ==
    /\ task.pc = "eprint"
    /\ printed' = [printed EXCEPT !.stderr = @ \o task.stderr_bytes]
    /\ task' = [task EXCEPT
                !.pc = IF task.stdout_done /\ task.stderr_done
                       THEN "done" ELSE "read_stdout"]
    /\ UNCHANGED <<stdio, popen, pipes, mute>>
    /\ UNCHANGED vars
    /\ UNCHANGED frontend

\* mute() / unmute(): another thread flips the shared flag.
SetMute ==
    /\ stdio # "unset"
    /\ mute' = ~mute
    /\ UNCHANGED <<stdio, popen, pipes, task, printed>>
    /\ UNCHANGED vars
    /\ UNCHANGED frontend

\* One process is created; its two streams deliver up to MaxLines reads each and
\* then end.
ForwardInit ==
    /\ ManagerInit
    /\ ~exit_on_error
    /\ ~quit_on_completion
    /\ NotSpawned
    /\ NotStarted
    /\ pipes \in [Streams -> [items : SeqUpTo(Reads, MaxLines), end : Ends]]

ForwardNext ==
    \/ StartStdio
    \/ ReadStdout
    \/ ReadStderr
    \/ MuteSleep
    \/ MuteWake
    \/ MutePass
    \/ PrintStdout
    \/ EprintStderr
    \/ SetMute

ForwardSpec == ForwardInit /\ [][ForwardNext]_<<vars, forwarding, frontend>>

\* ------------------------------------------------------------- lib.rs, kb.rs
\* How many keys the input loop reads.
MaxKeys == 2

\* How many startup commands, and how many selected ones, the configuration has.
MaxStartup == 2

MaxSelected == 1

\* The keys: 'q', 'l' (list), and one that is no command.
Keys == {"q", "l", "x"}

\* What every step of the program around the manager leaves alone.
managed == <<processes, child, wait_handles, index, killed, exit_on_error,
             quit_on_completion, created, reaped, target, replaced>>

\* ProcessManagerHandle::send from thread c: the message goes to the mailbox and
\* the thread blocks on the reply channel.
HandleSend(c, m, state) ==
    /\ mailbox' = Append(mailbox, m)
    /\ caller' = [caller EXCEPT ![c] = state]
    /\ sends' = sends + 1

\* execute_startup_commands: sender.spawn_advanced(&command, &opts).
StartupSpawn ==
    /\ actor # "exited"
    /\ main.phase = "startup"
    /\ main.pc = "spawn"
    /\ caller["owner"] = "idle"
    /\ HandleSend("owner", Message("CreateAdvanced", "a", NoId, "none", "owner"), "sent")
    /\ last' = Quiet("env")
    /\ UNCHANGED <<managed, actor, exit_path, forwarding, frontend>>

\* execute_startup_commands: sender.wait(id) on the id just returned.
StartupWait ==
    /\ actor # "exited"
    /\ main.phase = "startup"
    /\ main.pc = "wait"
    /\ caller["owner"] = "idle"
    /\ HandleSend("owner", Message("Wait", "none", main.id, "none", "owner"), "sent")
    /\ last' = Quiet("env")
    /\ UNCHANGED <<managed, actor, exit_path, forwarding, frontend>>

\* execute_together_commands: sender.send(ProcessAction::Create(command)).
TogetherSend ==
    /\ actor # "exited"
    /\ main.phase = "together"
    /\ caller["owner"] = "idle"
    /\ HandleSend("owner", Message("Create", "b", NoId, "none", "owner"), "sent")
    /\ last' = Quiet("env")
    /\ UNCHANGED <<managed, actor, exit_path, forwarding, frontend>>

\* handle_key_press, its first lines: a quit requested by the key before is now
\* awaiting its second 'q'.
KeyEntered(st) ==
    IF st.requested_quit
    THEN [requested_quit |-> FALSE, awaiting_quit_command |-> TRUE]
    ELSE st

\* handle_key_press: the InputState it leaves, the ControlFlow it returns and the
\* request it sends.
handle_key_press(key, state) ==
    LET st == KeyEntered(state) IN
    IF key = "q"
    THEN IF st.awaiting_quit_command
         THEN [state |-> st, flow |-> "Break", action |-> "KillAll"]
         ELSE [state |-> [st EXCEPT !.requested_quit = TRUE],
               flow |-> "Break", action |-> "None"]
    ELSE [state |-> [st EXCEPT !.awaiting_quit_command = FALSE],
          flow |-> "Continue",
          action |-> IF key = "l" THEN "List" ELSE "None"]

\* block_for_user_input: one key is read and handled; Break ends the loop, after
\* which start drops the manager.
KeyPress ==
    \E key \in Keys :
        LET r == handle_key_press(key, main.input) IN
        /\ actor # "exited"
        /\ main.phase = "input"
        /\ caller["owner"] = "idle"
        /\ Len(keys) < MaxKeys
        /\ keys' = Append(keys, key)
        /\ main' = [main EXCEPT !.input = r.state,
                                !.phase = IF r.flow = "Break" THEN "drop" ELSE "input"]
        /\ IF r.action = "None"
           THEN UNCHANGED <<mailbox, caller, sends>>
           ELSE HandleSend("owner", Message(r.action, "none", NoId, "none", "owner"), "sent")
        /\ last' = Quiet("env")
        /\ UNCHANGED <<managed, actor, exit_path, forwarding, ctrl>>

\* start returns, with Ok after the input loop or with Err through a `?`: the
\* manager is dropped, which sends KillAll.
MainDrop ==
    /\ actor # "exited"
    /\ main.phase \in {"drop", "failed"}
    /\ caller["owner"] = "idle"
    /\ HandleSend("owner", Message("KillAll", "none", NoId, "none", "owner"), "drop_sent")
    /\ last' = Quiet("env")
    /\ UNCHANGED <<managed, actor, exit_path, forwarding, frontend>>

\* Faulty variant of the handler's test: the flag is not looked at.
CtrlExits_never(state) == FALSE

\* handle_ctrl_signal, the handler's test of its flag: set means exit(1).
CtrlExits(state) == state

\* The exit status of the program for each way it ends.
exit_code(path) == IF path = "ctrl_c" THEN 1 ELSE 0

\* handle_ctrl_signal, one run of the handler (the ctrlc thread runs them one
\* after the other): exit(1) when the flag is set, otherwise set it and send
\* KillAll through the subscribed handle.
CtrlC ==
    /\ actor # "exited"
    /\ main.phase # "off"
    /\ caller["sub"] = "idle"
    /\ ctrl' = [state |-> TRUE, presses |-> ctrl.presses + 1]
    /\ IF CtrlExits(ctrl.state)
       THEN /\ Exit("ctrl_c")
            /\ UNCHANGED <<mailbox, caller, sends>>
       ELSE /\ HandleSend("sub", Message("KillAll", "none", NoId, "none", "sub"), "sent")
            /\ UNCHANGED <<actor, exit_path>>
    /\ last' = Quiet("env")
    /\ UNCHANGED <<managed, forwarding, main, keys>>

\* start is called with `startup` startup commands and `selected` selected ones.
StartInit ==
    /\ ManagerInit
    /\ NotSpawned
    /\ pipes = [s \in Streams |-> [items |-> <<>>, end |-> "eof"]]
    /\ \E startup \in 0..MaxStartup, selected \in 0..MaxSelected :
        main = [phase |-> NextPhase(startup, selected),
                   pc |-> IF startup > 0 THEN "spawn" ELSE "none",
                   startup |-> startup, selected |-> selected,
                   id |-> NoId, ids |-> <<>>, input |-> InputState]
    /\ ctrl = [state |-> FALSE, presses |-> 0]
    /\ keys = <<>>

StartNext ==
    \/ Recv
    \/ RecvTimeout
    \/ IdleRecv
    \/ IdleTimeout
    \/ StartupSpawn
    \/ StartupWait
    \/ TogetherSend
    \/ KeyPress
    \/ MainDrop
    \/ CtrlC
    \/ ChildExit

\* The program as start runs it.
StartSpec == StartInit /\ [][StartNext]_<<vars, forwarding, frontend>>

\* ------------------------------------------------------------- properties
\* The steps in which the actor received a message.
ServeKinds == {"recv", "idle_recv"}

\* The elements of a sequence.
Range(seq) == {seq[i] : i \in 1..Len(seq)}

\* C1: the sequence numbers of the ProcessIds returned by successive Create /
\* CreateAdvanced requests are strictly increasing in the order the actor
\* processed them, so no two ProcessIds ever created share a sequence number,
\* whatever their command text.
C1_SequenceNumbersIncrease ==
    \A i, j \in 1..Len(created) : i < j => created[i].id < created[j].id

\* C1, its case: two processes were created from the same command text.
C1_Witness ==
    /\ Len(created) >= 2
    /\ created[1].command = created[2].command

\* C2: while no reap cycle has removed anything, the response to List is exactly
\* the set of ProcessIds the Created responses returned so far, none missing, none
\* extra, none twice.
C2_ListIsCreated ==
    (last.kind \in ServeKinds /\ last.msg.action = "List" /\ reaped = {})
        => /\ Len(last.sent) = 1
           /\ last.sent[1].response.type = "List"
           /\ last.sent[1].response.list = Range(created)
           /\ Cardinality(Range(created)) = Len(created)

\* C2, its case: List answered after two successful Creates and no reap.
C2_Witness ==
    /\ last.kind \in ServeKinds
    /\ last.msg.action = "List"
    /\ reaped = {}
    /\ Len(created) = 2
    /\ Cardinality(last.sent[1].response.list) = 2

\* A step in which the actor took the message at the head of the mailbox.
ServeStep ==
    /\ mailbox # <<>>
    /\ mailbox' = Tail(mailbox)
    /\ last'.kind \in ServeKinds
    /\ last'.msg = Head(mailbox)

\* A child that is no longer running.
Exited(p) == child[p].status # "running"

\* C3 (as stated): a notifier registered by an accepted Wait(id) fires once that
\* id's process has exited and been removed from the table, and a notifier fires
\* only for the removal of its own exited process.
C3_Claim ==
    /\ \A id \in DOMAIN wait_handles : ~(id \notin processes /\ Exited(id))
    /\ \A n \in last.notified :
        n.id \notin processes /\ try_wait(child[n.id]).tag = "Some"

\* C4: Kill on an id that is not in the table is answered Error(NoSuchProcess),
\* which ProcessManagerHandle::kill turns into Ok(None); the actor goes on
\* receiving, the table, the children (no signal is sent), the notifiers, the
\* index and the killed flag are as before.
C4_KillAbsent ==
    [][(ServeStep /\ Head(mailbox).action = "Kill" /\ Head(mailbox).id \notin processes)
        => /\ last'.sent = <<[to |-> Head(mailbox).from,
                              response |-> Response("NoSuchProcess", NoId, {})]>>
           /\ handle_kill(last'.sent[1].response) = "Ok(None)"
           /\ actor' = "recv"
           /\ UNCHANGED <<processes, child, wait_handles, index, killed, exit_path>>]_vars

\* C4, its case: Kill on a removed id was answered while another process is in
\* the table.
C4_Witness ==
    /\ last.kind \in ServeKinds
    /\ last.msg.action = "Kill"
    /\ last.msg.id \in reaped
    /\ last.sent[1].response.type = "NoSuchProcess"
    /\ processes # {}

\* C5: with exit_on_error set, the reap cycle that observes a process exited
\* non-zero leaves the table empty, the exited process and every other one being
\* removed by it, and every process that was still running has been sent SIGTERM
\* unless the OS refused the kill.
C5_Cascade ==
    [][(/\ last'.kind = "reap"
        /\ processes' # processes
        /\ exit_on_error
        /\ \E p \in processes :
            try_wait(child[p]).tag = "Some" /\ try_wait(child[p]).code # 0)
        => /\ processes' = {}
           /\ processes \subseteq reaped'
           /\ \A p \in processes :
                (child[p].status = "running" /\ p \notin last'.failed)
                    => child'[p].signal = "SIGTERM"]_vars

\* C5, its case: a reap removed a process that exited 7 together with a running
\* one, which it signalled.
C5_Witness ==
    /\ last.kind = "reap"
    /\ exit_on_error
    /\ processes = {}
    /\ \E p, q \in reaped :
        /\ child[p].status = "exit7"
        /\ child[q].status = "running"
        /\ child[q].signal = "SIGTERM"

\* C6: with quit_on_completion set, the reap that leaves the table empty ends the
\* program with status 0, and the program never ends along that path while a
\* process is in the table.
C6_QuitOnCompletion ==
    /\ (last.kind = "reap" /\ processes = {} /\ quit_on_completion)
        => (actor = "exited" /\ exit_path = "completion")
    /\ exit_path = "completion"
        => (processes = {} /\ actor = "exited" /\ last.kind = "reap")

\* C6, its case: the program ended because a reap emptied the table.
C6_Witness ==
    /\ quit_on_completion
    /\ ~killed
    /\ exit_path = "completion"
    /\ reaped # {}

\* C7: with quit_on_completion unset the program ends only after a KillAll was
\* received; a reap that empties the table leaves the actor receiving, and a
\* Create processed afterwards whose spawn succeeds is answered Created with a
\* ProcessId that is in the table.
C7_StaysUp ==
    ~quit_on_completion
        => /\ actor = "exited" => (killed \/ exit_path = "idle_killall")
           /\ (last.kind = "reap" /\ processes = {} /\ ~killed) => actor = "idle_recv"
           /\ (last.kind \in ServeKinds /\ last.msg.action \in CreateActions /\ last.spawned)
                => /\ Len(last.sent) = 1
                   /\ last.sent[1].response.type = "Created"
                   /\ last.sent[1].response.id.command = last.msg.command
                   /\ last.sent[1].response.id \in processes

\* C7, its case: after a reap emptied the table, a Create was answered Created
\* and its process is the only one in the table.
C7_Witness ==
    /\ ~quit_on_completion
    /\ ~killed
    /\ reaped # {}
    /\ last.kind \in ServeKinds
    /\ last.msg.action \in CreateActions
    /\ last.sent[1].response.type = "Created"
    /\ processes = {last.sent[1].response.id}

\* C8: Kill on a running process of the table is answered Killed unless the OS
\* refuses the kill, and the process has then been signalled; a reap cycle removes
\* every process of the table that has exited; List answers the table; a removed
\* id never returns to the table. So once the killed process has exited and a reap
\* has run, List no longer contains it.
C8_KilledThenGone ==
    [][/\ (/\ ServeStep
           /\ Head(mailbox).action = "Kill"
           /\ Head(mailbox).id \in processes
           /\ child[Head(mailbox).id].status = "running"
           /\ Head(mailbox).id \notin last'.failed)
            => /\ last'.sent = <<[to |-> Head(mailbox).from,
                                  response |-> Response("Killed", NoId, {})]>>
               /\ child'[Head(mailbox).id].signal # "none"
       /\ last'.kind = "reap"
            => \A p \in processes : try_wait(child[p]).tag = "Some" => p \notin processes'
       /\ (ServeStep /\ Head(mailbox).action = "List")
            => /\ last'.sent[1].response.list = processes
               /\ processes' = processes
       /\ reaped' \cap processes' = {}]_vars

\* C8, its case: a process that was killed and ended by the signal has been
\* reaped, and the List answered after that does not contain it.
C8_Witness ==
    /\ last.kind \in ServeKinds
    /\ last.msg.action = "List"
    /\ \E p \in reaped :
        /\ child[p].status = "signaled"
        /\ p \notin last.sent[1].response.list

\* C9 (as stated): when the loop has ended after the owner's drop was answered
\* KilledAll, every running process in the table has been sent a signal.
C9_Claim ==
    (exit_path = "loop_end" /\ caller["owner"] = "joining")
        => \A p \in processes : child[p].status = "running" => child[p].signal # "none"

\* The requests of caller c in the mailbox.
Pending(c) == {i \in 1..Len(mailbox) : mailbox[i].from = c}

\* A caller blocked on the reply channel of a request.
Blocked(c) == caller[c] \in {"sent", "drop_sent"}

\* Exactly one response went to the sender of the message received last, of a
\* type its action allows.
OneReply ==
    /\ Len(last.sent) = 1
    /\ last.sent[1].to = last.msg.from
    /\ last.msg.action \in CreateActions
        => last.sent[1].response.type \in {"Created", "SpawnChildFailed"}
    /\ last.msg.action = "KillAll"
        => last.sent[1].response.type \in {"KilledAll", "Unknown"}

\* While the actor runs, a blocked caller has exactly one request in the
\* mailbox and any other caller has none.
OneRequest ==
    actor # "exited"
        => \A c \in Callers : Cardinality(Pending(c)) = IF Blocked(c) THEN 1 ELSE 0

\* C10 (as stated): every request the actor receives gets exactly one response,
\* Created or SpawnChildFailed for a Create, KilledAll or Unknown for a KillAll,
\* and a blocked caller's request is still to be received.
C10_Claim ==
    /\ last.kind \in ServeKinds => OneReply
    /\ OneRequest

\* The second recv_timeout took a KillAll: the program ended with no response.
IdleKillAll == last.kind = "idle_recv" /\ last.msg.action = "KillAll"

\* C10 (amended): every request the actor receives gets exactly one response,
\* Created or SpawnChildFailed for a Create, KilledAll or Unknown for a KillAll,
\* except a KillAll taken by the receive that follows a reap which emptied the
\* table: that one ends the program with status 0 and gets no response.
C10_ReplyUnlessIdleKillAll ==
    /\ (last.kind \in ServeKinds /\ ~IdleKillAll) => OneReply
    /\ IdleKillAll
        => (last.sent = <<>> /\ actor = "exited" /\ exit_path = "idle_killall")
    /\ OneRequest

\* C10, its case: the first receive answered a KillAll with Error(Unknown), and
\* the dropping owner returned without joining.
C10_Witness ==
    /\ last.kind = "recv"
    /\ last.msg.action = "KillAll"
    /\ last.sent[1].response.type = "Unknown"
    /\ caller["owner"] = "dropped"

\* The fields of the ProcessManager that requests and reaps act on.
manager == <<processes, child, wait_handles, index, killed>>

\* A caller put one message at the end of the mailbox.
EnqueueStep ==
    /\ Len(mailbox') = Len(mailbox) + 1
    /\ SubSeq(mailbox', 1, Len(mailbox)) = mailbox
    /\ last'.kind = "env"

\* C11: requests are processed one at a time, in the order they were put in the
\* mailbox. The mailbox changes only by a caller appending at its end or by the
\* actor taking its head, and the step that takes a message does all of that
\* message's processing and sends its response; the table, the notifiers, the
\* index and the killed flag change only in such a step or in a reap, and a reap
\* takes no message and sends no response.
C11_InOrder ==
    [][/\ mailbox' # mailbox
            => \/ ServeStep /\ (Len(last'.sent) = 1 \/ actor' = "exited")
               \/ EnqueueStep /\ UNCHANGED manager
       /\ <<processes, wait_handles, index, killed>>' # <<processes, wait_handles, index, killed>>
            => \/ ServeStep
               \/ last'.kind = "reap" /\ last'.sent = <<>> /\ UNCHANGED mailbox
       /\ last'.sent # <<>> => ServeStep]_vars

\* C11, its case: a request was processed while a request of the other caller,
\* sent after it, stayed in the mailbox.
C11_Witness ==
    /\ last.kind \in ServeKinds
    /\ Len(last.sent) = 1
    /\ Len(mailbox) = 1
    /\ mailbox[1].from # last.msg.from

\* C12 (as stated): with exit_on_error set, the reap that removes a process which
\* exited non-zero ends the program.
C12_Claim ==
    [][(/\ last'.kind = "reap"
        /\ processes' # processes
        /\ exit_on_error
        /\ \E p \in processes :
            try_wait(child[p]).tag = "Some" /\ try_wait(child[p]).code # 0)
        => actor' = "exited"]_vars

\* The signal a request asks for, `default` standing for Option::None.
Asked(m, default) == IF m.action = "KillAdvanced" THEN m.signal ELSE default

\* After a Kill, KillAdvanced or KillAll was processed, every running process it
\* targets, unless the OS refused the kill, has the signal asked for delivered
\* last, plain Kill and KillAll asking for `default`.
Delivered(default) ==
    /\ (/\ last.kind \in ServeKinds
        /\ last.msg.action \in KillActions
        /\ last.msg.id \in processes
        /\ child[last.msg.id].status = "running"
        /\ last.msg.id \notin last.failed)
        => child[last.msg.id].signal = Asked(last.msg, default)
    /\ (last.kind = "recv" /\ last.msg.action = "KillAll")
        => \A p \in processes :
            (child[p].status = "running" /\ p \notin last.failed)
                => child[p].signal = default

\* C14 (as stated): plain Kill and KillAll deliver SIGINT, KillAdvanced(id, s)
\* delivers s.
C14_Claim == Delivered("SIGINT")

\* C14 (amended): plain Kill and KillAll deliver SIGTERM, KillAdvanced(id, s)
\* delivers exactly s among SIGINT, SIGTERM, SIGKILL.
C14_DefaultIsSigterm == Delivered("SIGTERM")

\* C14, its case: a plain Kill was answered Killed and its target, still running,
\* has SIGTERM delivered.
C14_Witness ==
    /\ last.kind \in ServeKinds
    /\ last.msg.action = "Kill"
    /\ last.sent[1].response.type = "Killed"
    /\ child[last.msg.id].status = "running"
    /\ child[last.msg.id].signal = "SIGTERM"

\* C15: a Create or CreateAdvanced whose spawn fails is answered
\* Error(SpawnChildFailed) to its sender; the table, the children, the notifiers
\* and the killed flag are as before, and the actor goes on receiving.
C15_SpawnFailure ==
    [][(ServeStep /\ Head(mailbox).action \in CreateActions /\ ~last'.spawned)
        => /\ last'.sent = <<[to |-> Head(mailbox).from,
                              response |-> Response("SpawnChildFailed", NoId, {})]>>
           /\ caller'[Head(mailbox).from] = "idle"
           /\ actor' = "recv"
           /\ UNCHANGED <<processes, child, wait_handles, killed, exit_path>>]_vars

\* C15, its case: a spawn failed while a process with a registered notifier was
\* in the table.
C15_Witness ==
    /\ last.kind \in ServeKinds
    /\ last.msg.action \in CreateActions
    /\ last.sent[1].response.type = "SpawnChildFailed"
    /\ processes # {}
    /\ DOMAIN wait_handles # {}

\* C16: Wait(id) for an id that is not in the table is answered
\* Error(NoSuchProcess) and leaves the notifiers as they were; Wait(id) for an id
\* in the table is answered Waited and registers the sender's notifier under
\* exactly that id, every other notifier staying as it was.
C16_WaitRegisters ==
    [][(ServeStep /\ Head(mailbox).action = "Wait")
        => /\ UNCHANGED <<processes, child>>
           /\ IF Head(mailbox).id \in processes
              THEN /\ last'.sent = <<[to |-> Head(mailbox).from,
                                      response |-> Response("Waited", Head(mailbox).id, {})]>>
                   /\ DOMAIN wait_handles' = DOMAIN wait_handles \cup {Head(mailbox).id}
                   /\ wait_handles'[Head(mailbox).id] = Head(mailbox).from
                   /\ \A p \in DOMAIN wait_handles \ {Head(mailbox).id} :
                        wait_handles'[p] = wait_handles[p]
              ELSE /\ last'.sent = <<[to |-> Head(mailbox).from,
                                      response |-> Response("NoSuchProcess", NoId, {})]>>
                   /\ UNCHANGED wait_handles]_vars

\* C16, its case: with two processes in the table, a Wait was answered Waited
\* and its notifier is registered under the id it named.
C16_Witness ==
    /\ last.kind \in ServeKinds
    /\ last.msg.action = "Wait"
    /\ last.sent[1].response.type = "Waited"
    /\ Cardinality(processes) = 2
    /\ DOMAIN wait_handles = {last.msg.id}
    /\ wait_handles[last.msg.id] = last.msg.from

C19_Claim == caller["owner"] = "dropped" => actor = "exited"

\* C19 (amended): dropping the owning handle puts one KillAll in the mailbox and
\* blocks until the reply arrives; on KilledAll it joins the actor thread and
\* stays there until the loop has ended; on Error(Unknown) it returns at once,
\* whether or not the loop has ended.
C19_JoinsOnKilledAll ==
    [][/\ (caller["owner"] # "drop_sent" /\ caller'["owner"] = "drop_sent")
            => /\ EnqueueStep
               /\ mailbox'[Len(mailbox')] = Message("KillAll", "none", NoId, "none", "owner")
       /\ (caller["owner"] = "drop_sent" /\ actor # "exited")
            => Cardinality(Pending("owner")) = 1
       /\ (caller["owner"] = "drop_sent" /\ caller'["owner"] # "drop_sent")
            => /\ ServeStep
               /\ Head(mailbox) = Message("KillAll", "none", NoId, "none", "owner")
               /\ Len(last'.sent) = 1
               /\ IF last'.sent[1].response.type = "KilledAll"
                  THEN caller'["owner"] = "joining"
                  ELSE /\ last'.sent[1].response.type = "Unknown"
                       /\ caller'["owner"] = "dropped"
       /\ caller["owner"] = "joining" => caller'["owner"] = "joining"]_vars

\* C19, its case: the owner's drop was answered KilledAll, the owner joined, and
\* the loop has ended.
C19_Witness ==
    /\ caller["owner"] = "joining"
    /\ actor = "exited"
    /\ exit_path = "loop_end"

\* C20 (as stated): at the moment the loop stops after a KillAll, no process
\* remains in the table.
C20_Claim == exit_path = "loop_end" => processes = {}

\* C13 (as stated): restart never leaves two replacement processes for one
\* original target: the Created replies to restarts of one id carry one ProcessId.
C13_Claim ==
    \A r1, r2 \in replaced : r1.target = r2.target => r1.id = r2.id

\* The handles whose drop has begun.
OwnerDropped == caller["owner"] \in {"drop_sent", "joining", "dropped"}

\* C18: dropping a handle obtained through subscribe puts no message in the
\* mailbox and changes nothing of the manager; a KillAll enters the mailbox only
\* through the drop of the owning handle, and that handle is dropped at most once,
\* so at most one such KillAll is ever enqueued.
C18_OnlyOwnerDropKills ==
    [][/\ (caller["sub"] # "dropped" /\ caller'["sub"] = "dropped")
            => UNCHANGED <<mailbox, manager, actor, exit_path>>
       /\ (EnqueueStep /\ mailbox'[Len(mailbox')].action = "KillAll")
            => /\ mailbox'[Len(mailbox')].from = "owner"
               /\ ~OwnerDropped
               /\ OwnerDropped'
       /\ OwnerDropped => OwnerDropped'
       /\ Cardinality({i \in 1..Len(mailbox') : mailbox'[i].action = "KillAll"}) <= 1]_vars

\* C18, its case: both handles were dropped, the subscribed one first; the one
\* KillAll of the owner's drop was processed.
C18_Witness ==
    /\ caller["sub"] = "dropped"
    /\ caller["owner"] = "joining"
    /\ killed
    /\ processes # {}

\* C21 (as stated): every key of wait_handles is a key of the process table, and a
\* notifier that fired belonged to a process the same reap removed, its entry
\* being gone with it.
C21_Claim ==
    /\ DOMAIN wait_handles \subseteq processes
    /\ \A n \in last.notified : n.id \notin processes /\ n.id \notin DOMAIN wait_handles

\* C22 (as stated): in the reap cycle of an exit_on_error cascade every remaining
\* process is signalled and stays in the table; a reap removes a process only
\* when it has observed that process's own exit.
C22_Claim ==
    [][last'.kind = "reap"
        => /\ KillAllTriggered
                => \A p \in processes \ Remove :
                    /\ p \in processes'
                    /\ (child[p].status = "running" /\ p \notin last'.failed)
                            => child'[p].signal = "SIGTERM"
           /\ processes \ processes' \subseteq Remove]_vars

\* C23: the killed flag is false after construction, becomes true only in the
\* step that processes a KillAll, and is never reset; a loop that has ended stays
\* ended, and a loop that ended at its break had the flag set.
C23_KilledIsMonotone ==
    [][/\ last.kind = "init" => ~killed
       /\ killed => killed'
       /\ (~killed /\ killed') => (ServeStep /\ Head(mailbox).action = "KillAll")
       /\ (ServeStep /\ actor = "recv" /\ Head(mailbox).action = "KillAll") => killed'
       /\ actor = "exited" => actor' = "exited"
       /\ exit_path' = "loop_end" => killed']_vars

\* C23, its case: after the KillAll was processed a Create was processed, and the
\* flag is still set.
C23_Witness ==
    /\ killed
    /\ last.kind = "recv"
    /\ last.msg.action \in CreateActions
    /\ last.spawned

\* C24: with exit_on_error false a reap cycle removes exactly the processes whose
\* poll returned an exit status, whatever the status, sends no signal, and leaves
\* every other process in the table.
C24_NoCascadeWithoutPolicy ==
    [][(last'.kind = "reap" /\ ~exit_on_error)
        => /\ processes' = processes \ Remove
           /\ child' = child
           /\ \A p \in processes : child[p].status = "running" => p \in processes']_vars

\* C24, its case: with exit_on_error false a reap removed a process that exited 7
\* and left a running one, unsignalled, in the table.
C24_Witness ==
    /\ last.kind = "reap"
    /\ ~exit_on_error
    /\ \E p \in reaped : child[p].status = "exit7"
    /\ \E q \in processes : child[q] = NewChild

\* C25 (as stated): a process whose poll fails with ProcessFailedToExit stays in
\* the table through that reap cycle with its notifier registered and unfired,
\* while the processes whose poll returned a status are removed.
C25_Claim ==
    [][last'.kind = "reap"
        => /\ \A p \in processes :
                try_wait(child[p]).tag = "Err"
                    => /\ p \in processes'
                       /\ p \in DOMAIN wait_handles => p \in DOMAIN wait_handles'
                       /\ \A n \in last'.notified : n.id # p
           /\ Remove \cap processes' = {}]_vars

\* C26: the keys of the table change only in the step that processes a Create or
\* CreateAdvanced whose spawn succeeded, which adds the one new id built from the
\* index, and in a reap cycle, which only removes; processing Kill, KillAdvanced,
\* KillAll, Wait or List, or a Create whose spawn failed, leaves the keys alone.
C26_TableChanges ==
    [][/\ processes' # processes
            => \/ /\ ServeStep
                  /\ Head(mailbox).action \in CreateActions
                  /\ last'.spawned
                  /\ ProcessId(index, Head(mailbox).command) \notin processes
                  /\ processes' = processes \cup {ProcessId(index, Head(mailbox).command)}
               \/ /\ last'.kind = "reap"
                  /\ processes' \subseteq processes
       /\ (ServeStep /\ Head(mailbox).action \notin CreateActions)
            => processes' = processes
       /\ (ServeStep /\ ~last'.spawned) => processes' = processes]_vars

\* C26, its case: after an earlier reap, a Kill signalled a process of the table
\* and the process is still in the table.
C26_Witness ==
    /\ last.kind \in ServeKinds
    /\ last.msg.action = "Kill"
    /\ last.msg.id \in processes
    /\ child[last.msg.id].signal = "SIGTERM"
    /\ reaped # {}

\* C27: Kill or KillAdvanced on a process that is in the table and has already
\* exited is answered Killed, which ProcessManagerHandle::kill turns into
\* Ok(Some); no signal is delivered and nothing of the manager changes, so the
\* same request gets the same answer again.
C27_KillExited ==
    [][(/\ ServeStep
        /\ Head(mailbox).action \in KillActions
        /\ Head(mailbox).id \in processes
        /\ Exited(Head(mailbox).id))
        => /\ last'.sent = <<[to |-> Head(mailbox).from,
                              response |-> Response("Killed", NoId, {})]>>
           /\ handle_kill(last'.sent[1].response) = "Ok(Some)"
           /\ last'.failed = {}
           /\ UNCHANGED manager]_vars

\* C27, its case: a Kill on a process that exited 0 and is still in the table was
\* answered Killed, and no signal has reached the child.
C27_Witness ==
    /\ last.kind \in ServeKinds
    /\ last.msg.action = "Kill"
    /\ last.msg.id \in processes
    /\ child[last.msg.id].status = "exit0"
    /\ child[last.msg.id].signal = "none"
    /\ last.sent[1].response.type = "Killed"

\* C28 (as stated): a process created with StderrOnly has its stderr piped and
\* taken by the forwarding thread while its stdout is inherited, and every piped
\* stream of a created process has been taken by a reader.
C28_Claim ==
    /\ stdio = "StderrOnly"
        => /\ popen.stderr = "Pipe"
           /\ "stderr" \in popen.taken
           /\ popen.stdout = "None"
    /\ \A s \in Streams : popen[s] = "Pipe" => s \in popen.taken

\* C28 (amended): a process created with StderrOnly has its stderr inherited from
\* the parent and its stdout piped, and no forwarding thread is started for it, so
\* nothing is ever read from or printed for it; with Inherit both streams are
\* piped and taken by the forwarding thread, with Raw both are inherited. The
\* stdout pipe of StderrOnly is the one piped stream left without a reader.
C28_StdioModes ==
    /\ stdio = "StderrOnly"
        => /\ popen = [stdout |-> "Pipe", stderr |-> "None", taken |-> {}]
           /\ task.pc = "none"
           /\ printed = [stdout |-> <<>>, stderr |-> <<>>]
    /\ stdio = "Inherit"
        => /\ popen = [stdout |-> "Pipe", stderr |-> "Pipe", taken |-> Streams]
           /\ task.pc # "none"
    /\ stdio = "Raw"
        => /\ popen = [stdout |-> "None", stderr |-> "None", taken |-> {}]
           /\ task.pc = "none"
    /\ \A s \in Streams :
        (popen[s] = "Pipe" /\ s \notin popen.taken) => (stdio = "StderrOnly" /\ s = "stdout")

\* C28, its case: a process was created with StderrOnly and has two lines to
\* write on each stream.
C28_Witness ==
    /\ stdio = "StderrOnly"
    /\ popen.stdout = "Pipe"
    /\ pipes.stdout.items = <<"line", "line">>
    /\ pipes.stderr.items = <<"line", "line">>

\* The results of read_line that report the end of a stream or a read error.
Finished == {"Ok(0)", "Err"}

\* C29 (as stated): the forwarding thread does not go round its loop again after
\* an iteration in which each of the two reads returned end-of-stream or an error.
C29_Claim ==
    ~(/\ task.pc = "read_stdout"
      /\ task.stdout_read \in Finished
      /\ task.stderr_read \in Finished)

\* C30 (as stated, for stderr): the forwarding thread is never asleep on the mute
\* flag while it holds a stderr line that it has read and not yet written.
C30_Claim == ~(task.pc = "sleep" /\ mute /\ task.stderr_bytes # <<>>)

\* C32: a caller blocked in ProcessManagerHandle::wait is released with success
\* only by the reap step that removes the process it waits for, whose poll
\* returned a status; a caller leaves the wait only by that or by the release of a
\* replaced notifier. A Wait for an id that is no longer in the table is answered
\* NoSuchProcess, which wait turns into Err(UnexpectedResponse) at once: the
\* caller does not block and no notifier is registered.
C32_WaitReturns ==
    [][/\ \A n \in last'.notified :
            /\ last'.kind = "reap"
            /\ n.id \in processes
            /\ n.id \notin processes'
            /\ try_wait(child[n.id]).tag = "Some"
            /\ caller[n.to] = "waiting"
       /\ \A c \in Callers :
            (caller[c] = "waiting" /\ caller'[c] # "waiting")
                => \/ \E n \in last'.notified : n.to = c
                   \/ c \in last'.displaced
       /\ (ServeStep /\ Head(mailbox).action = "Wait" /\ Head(mailbox).id \notin processes)
            => /\ last'.sent[1].response.type = "NoSuchProcess"
               /\ handle_wait(last'.sent[1].response) = "Err(UnexpectedResponse)"
               /\ caller'[Head(mailbox).from] = "idle"
               /\ wait_handles' = wait_handles]_vars

\* C32, its case: a Wait for a process that a reap had already removed was
\* answered NoSuchProcess, and its caller is not blocked.
C32_Witness ==
    /\ last.kind \in ServeKinds
    /\ last.msg.action = "Wait"
    /\ last.msg.id \in reaped
    /\ last.sent[1].response.type = "NoSuchProcess"
    /\ caller[last.msg.from] = "idle"

\* C35: a child ended by a signal is polled as exit status 1, so with
\* exit_on_error set the reap that finds such a child in the table empties the
\* table and sends SIGTERM to every process of it that is still running (unless
\* the OS refuses), the replacement a restart has just spawned included.
C35_SignalDeathCascades ==
    [][(/\ last'.kind = "reap"
        /\ exit_on_error
        /\ \E p \in processes : child[p].status = "signaled")
        => /\ \A p \in processes :
                child[p].status = "signaled"
                    => try_wait(child[p]) = [tag |-> "Some", code |-> 1]
           /\ processes' = {}
           /\ \A q \in processes :
                (child[q].status = "running" /\ q \notin last'.failed)
                    => child'[q].signal = "SIGTERM"]_vars

\* C35, its case: with exit_on_error set a restart killed its target, the target
\* died of the signal, and the reap that saw it signalled and removed the
\* replacement, which was running.
C35_Witness ==
    /\ last.kind = "reap"
    /\ exit_on_error
    /\ \E r \in replaced :
        /\ child[r.target].status = "signaled"
        /\ r.id \in reaped
        /\ child[r.id].status = "running"
        /\ child[r.id].signal = "SIGTERM"

\* C36: a Create or CreateAdvanced processed after a KillAll is served like any
\* other: on a successful spawn the new process is inserted, unsignalled, and
\* answered Created, and the flag stays set; the receive timeout that follows ends
\* the loop without a reap and without a signal, whatever is in the table.
C36_CreateAfterKillAll ==
    [][/\ (ServeStep /\ killed /\ Head(mailbox).action \in CreateActions /\ last'.spawned)
            => LET id == ProcessId(index, Head(mailbox).command) IN
               /\ id \in processes'
               /\ child'[id] = NewChild
               /\ last'.sent = <<[to |-> Head(mailbox).from,
                                  response |-> Response("Created", id, {})]>>
               /\ killed'
       /\ (killed /\ actor = "recv" /\ last'.kind = "timeout")
            => /\ actor' = "exited"
               /\ exit_path' = "loop_end"
               /\ UNCHANGED <<processes, child, wait_handles>>]_vars

\* C36, its case: the loop has ended after a KillAll with two processes in the
\* table, the older one signalled by the KillAll, the newer one created after it
\* and never signalled.
C36_Witness ==
    /\ exit_path = "loop_end"
    /\ \E p, q \in processes :
        /\ q.id < p.id
        /\ child[q].signal = "SIGTERM"
        /\ child[p] = NewChild

\* C37: the notifier map holds one notifier per ProcessId; a Wait accepted for an
\* id that already has one replaces it, the caller registered before leaves its
\* wait without a notification, and a reap notifies, for each process it removes,
\* the one caller registered at that time.
C37_OneNotifier ==
    [][/\ (/\ ServeStep
           /\ Head(mailbox).action = "Wait"
           /\ Head(mailbox).id \in processes
           /\ Head(mailbox).id \in DOMAIN wait_handles)
            => LET old == wait_handles[Head(mailbox).id] IN
               /\ wait_handles' = [wait_handles EXCEPT ![Head(mailbox).id] = Head(mailbox).from]
               /\ last'.displaced = {old}
               /\ last'.notified = {}
               /\ caller[old] = "waiting"
               /\ caller'[old] = "idle"
               /\ caller'[Head(mailbox).from] = "waiting"
       /\ \A n \in last'.notified :
            /\ n.id \in DOMAIN wait_handles
            /\ n.to = wait_handles[n.id]
            /\ caller[n.to] = "waiting"
            /\ caller'[n.to] = "idle"]_vars

\* C37, its case: the subscribed handle's Wait replaced the notifier of the
\* owner, who left its wait; the process is still in the table.
C37_Witness ==
    /\ last.kind \in ServeKinds
    /\ last.msg.action = "Wait"
    /\ last.msg.from = "sub"
    /\ last.displaced = {"owner"}
    /\ caller["owner"] = "idle"
    /\ wait_handles[last.msg.id] = "sub"
    /\ last.msg.id \in processes

\* C39: the program ends through the control loop in three ways only: at the
\* break of a receive timeout, with killed set by a processed KillAll; when the
\* idle receive takes a KillAll; after a reap that emptied a table that was not
\* empty, with quit_on_completion set. A receive timeout that finds the table
\* empty and killed unset leaves the loop running.
C39_LoopEnds ==
    [][/\ (actor # "exited" /\ actor' = "exited")
            => \/ /\ exit_path' = "loop_end"
                  /\ killed
                  /\ last'.kind = "timeout"
               \/ /\ exit_path' = "idle_killall"
                  /\ ServeStep
                  /\ Head(mailbox).action = "KillAll"
               \/ /\ exit_path' = "completion"
                  /\ last'.kind = "reap"
                  /\ quit_on_completion
                  /\ processes # {}
                  /\ processes' = {}
       /\ (~killed /\ processes = {} /\ actor = "recv" /\ last'.kind = "timeout")
            => actor' = "recv"]_vars

\* C39, its case: with quit_on_completion set and nothing ever created, a receive
\* timeout has passed and the loop is still receiving.
C39_Witness ==
    /\ quit_on_completion
    /\ created = <<>>
    /\ index = 0
    /\ last.kind = "timeout"
    /\ actor = "recv"

\* C40: index is 0 after construction and grows by exactly 1 in every step that
\* processes a Create or CreateAdvanced, whether the spawn succeeds or fails, and
\* in no other step; a Created response carries the index the step started with.
C40_IndexCountsCreates ==
    [][/\ last.kind = "init" => index = 0
       /\ index' = index + (IF ServeStep /\ Head(mailbox).action \in CreateActions
                            THEN 1 ELSE 0)
       /\ (ServeStep /\ Head(mailbox).action \in CreateActions)
            => IF last'.spawned
               THEN last'.sent[1].response.id.id = index
               ELSE created' = created]_vars

\* C40, its case: the first Create failed to spawn and the second succeeded: the
\* one ProcessId created carries sequence number 1, and the next is 2.
C40_Witness ==
    /\ created = <<ProcessId(1, "a")>>
    /\ index = 2

\* The ids execute_startup_commands has been given by spawn_advanced.
StartupIds == {main.ids[i] : i \in 1..Len(main.ids)}

\* A startup command that has run to its end: exited, and removed by a reap.
StartupDone(id) == id \in reaped /\ child[id].status # "running"

\* C31: the startup commands run one at a time and before anything else: while a
\* create request of the main thread is in the mailbox, and whenever a process
\* exists that is not a startup command, every startup command spawned so far has
\* exited and been reaped; at most one startup command is in the table.
C31_StartupFirst ==
    /\ \A i \in 1..Len(mailbox) :
        (mailbox[i].action \in CreateActions /\ mailbox[i].from = "owner")
            => \A id \in StartupIds : StartupDone(id)
    /\ \A p \in DOMAIN child \ StartupIds :
        /\ main.startup = 0
        /\ \A id \in StartupIds : StartupDone(id)
    /\ Cardinality(StartupIds \cap processes) <= 1

\* C31, its case: two startup commands ran to their end one after the other, and
\* a selected command is now in the table.
C31_Witness ==
    /\ Len(main.ids) = 2
    /\ \A id \in StartupIds : StartupDone(id)
    /\ \E p \in processes : p.command = "b"

\* C33: the first run of the Ctrl-C handler sends one KillAll and ends nothing;
\* every later run sends nothing and ends the program with exit status 1. The
\* mailbox never holds more than one KillAll of the handler.
C33_CtrlC ==
    [][/\ ctrl'.presses = ctrl.presses + 1
            => IF ctrl.presses = 0
               THEN /\ mailbox' = Append(mailbox,
                                    Message("KillAll", "none", NoId, "none", "sub"))
                    /\ actor' = actor
               ELSE /\ mailbox' = mailbox
                    /\ actor' = "exited"
                    /\ exit_code(exit_path') = 1
       /\ Cardinality({i \in 1..Len(mailbox') :
                        mailbox'[i].action = "KillAll" /\ mailbox'[i].from = "sub"}) <= 1
      ]_<<vars, frontend>>

\* C33, its case: Ctrl-C was pressed twice; the KillAll of the first was
\* processed, the second ended the program with status 1.
C33_Witness ==
    /\ ctrl.presses = 2
    /\ killed
    /\ actor = "exited"
    /\ exit_code(exit_path) = 1

\* C34: the input loop has ended through a key only if the last two keys read
\* were both 'q'.
C34_Claim ==
    main.phase = "drop"
        => /\ Len(keys) >= 2
           /\ keys[Len(keys)] = "q"
           /\ keys[Len(keys) - 1] = "q"

\* C38: with quit_on_completion set, once the first startup command has been
\* reaped the program has ended with status 0 through the exit that follows the
\* reap, and that command is the only one ever created.
C38_QuitsDuringStartup ==
    (quit_on_completion /\ main.ids # <<>> /\ main.ids[1] \in reaped)
        => /\ actor = "exited"
           /\ exit_path = "completion"
           /\ exit_code(exit_path) = 0
           /\ created = <<main.ids[1]>>
           /\ index = 1
           /\ processes = {}

\* C38, its case: the first of two startup commands was reaped with
\* quit_on_completion set; the second, and a selected command, were still to come.
C38_Witness ==
    /\ quit_on_completion
    /\ main.ids # <<>>
    /\ main.ids[1] \in reaped
    /\ main.phase = "startup"
    /\ main.startup = 1
    /\ main.selected = 1
    /\ actor = "exited"

====
